---- MODULE Spec2Model ----
(***************************************************************************)
(* A model of resolve.py: the delegation-following resolver                *)
(* (recursive_dns_lookup), its entry point lookup, collect_results, and    *)
(* the loop of main with its cache.                                        *)
(*                                                                         *)
(* Text is modelled as a sequence of one-character strings, so that        *)
(* str(x)[:-1], str.split() and dns.name.from_text are computed as the     *)
(* code computes them.  A dns.name.Name object is represented by its       *)
(* absolute text (ending with ".").                                        *)
(***************************************************************************)
EXTENDS Integers, Sequences, FiniteSets, TLC

\* ------------------------------------------------------------------ bounds

\* Depth of nested recursive_dns_lookup calls the interpreter allows before
\* it raises RecursionError (CPython's limit is 1000; the code sets none).
MaxDepth == 2

\* How many of the thirteen root servers the model keeps: ROOT_SERVERS is the
\* list's first NumRoots addresses.
NumRoots == 3

\* How many names the command line of main carries at most.
MaxArgs == 2

\* ------------------------------------------------------- record type codes

RT_A == 1
RT_CNAME == 5
RT_MX == 15
RT_AAAA == 28

\* ------------------------------------------------------------------- text

SP == " "
NL == "\n"

\* s[:-1]
StripLast(s) == IF Len(s) = 0 THEN s ELSE SubSeq(s, 1, Len(s) - 1)

\* dns.name.from_text(s) with the root origin, which make_query applies to a
\* str: a text without a trailing dot is made absolute.
FromText(s) == IF Len(s) > 0 /\ s[Len(s)] = "." THEN s ELSE s \o <<".">>

\* dns.name.from_text(s) raises EmptyLabel for a text with an empty label:
\* a dot at its start or right after another dot, the text "." excepted.
Parses(s) ==
    \/ s = <<".">>
    \/ \A k \in 1..Len(s) : s[k] = "." => (k > 1 /\ s[k - 1] # ".")

RECURSIVE SplitFrom(_, _, _, _)
SplitFrom(s, k, cur, acc) ==
    IF k > Len(s)
    THEN IF cur = <<>> THEN acc ELSE Append(acc, cur)
    ELSE IF s[k] \in {SP, NL}
         THEN SplitFrom(s, k + 1, <<>>, IF cur = <<>> THEN acc ELSE Append(acc, cur))
         ELSE SplitFrom(s, k + 1, Append(cur, s[k]), acc)

\* str.split(): the maximal runs of non-whitespace characters, in order.
Split(s) == SplitFrom(s, 1, <<>>, <<>>)

\* dns.rdatatype.to_text
TypeText(t) ==
    CASE t = RT_A -> <<"A">>
      [] t = RT_CNAME -> <<"C", "N", "A", "M", "E">>
      [] t = RT_MX -> <<"M", "X">>
      [] t = RT_AAAA -> <<"A", "A", "A", "A">>
      [] t = 47 -> <<"N", "S", "E", "C">>

TTLText == <<"6", "0">>
ClassText == <<"I", "N">>

\* One line of str(rrset): owner, ttl, class, type, rdata text.
RdataLine(rr, rd) ==
    rr.name \o <<SP>> \o TTLText \o <<SP>> \o ClassText \o <<SP>>
        \o TypeText(rd.rdtype) \o <<SP>> \o rd.text

RECURSIVE RRsetTextFrom(_, _)
RRsetTextFrom(rr, k) ==
    IF k > Len(rr.items) THEN <<>>
    ELSE RdataLine(rr, rr.items[k])
            \o (IF k < Len(rr.items) THEN <<NL>> ELSE <<>>)
            \o RRsetTextFrom(rr, k + 1)

\* str(rrset): one line per rdata, joined by newlines.
RRsetText(rr) == RRsetTextFrom(rr, 1)

\* ------------------------------------------------------------ ROOT_SERVERS

RootAddresses ==
    <<
       <<"1", "9", "8", ".", "4", "1", ".", "0", ".", "4">>,
       <<"1", "9", "9", ".", "9", ".", "1", "4", ".", "2", "0", "1">>,
       <<"1", "9", "2", ".", "3", "3", ".", "4", ".", "1", "2">>,
       <<"1", "9", "9", ".", "7", ".", "9", "1", ".", "1", "3">>,
       <<"1", "9", "2", ".", "2", "0", "3", ".", "2", "3", "0", ".", "1", "0">>,
       <<"1", "9", "2", ".", "5", ".", "5", ".", "2", "4", "1">>,
       <<"1", "9", "2", ".", "1", "1", "2", ".", "3", "6", ".", "4">>,
       <<"1", "9", "8", ".", "9", "7", ".", "1", "9", "0", ".", "5", "3">>,
       <<"1", "9", "2", ".", "3", "6", ".", "1", "4", "8", ".", "1", "7">>,
       <<"1", "9", "2", ".", "5", "8", ".", "1", "2", "8", ".", "3", "0">>,
       <<"1", "9", "3", ".", "0", ".", "1", "4", ".", "1", "2", "9">>,
       <<"1", "9", "9", ".", "7", ".", "8", "3", ".", "4", "2">>,
       <<"2", "0", "2", ".", "1", "2", ".", "2", "7", ".", "3", "3">>
    >>

ROOT_SERVERS == SubSeq(RootAddresses, 1, NumRoots)

\* ------------------------------------------------- names, records, replies

\* Names typed by the user (collect_results' argument).
InputNames == {<<"a">>, <<"b">>}

NameA == <<"a", ".">>
NameB == <<"b", ".">>
NameNS == <<"n", ".">>

\* Addresses carried by A records.
Addr1 == <<"1", "0", ".", "1">>
Addr2 == <<"1", "0", ".", "2">>

Rdata(t, txt) == [rdtype |-> t, text |-> txt]
RRset(n, its) == [name |-> n, items |-> its]

RdA1 == Rdata(RT_A, Addr1)
RdA2 == Rdata(RT_A, Addr2)
RdCnameB == Rdata(RT_CNAME, NameB)
RdMX == Rdata(RT_MX, <<"5", SP, "m", ".">>)
RdAAAA == Rdata(RT_AAAA, <<":", ":", "1">>)
\* An NSEC record (type 47): next owner name and a type bitmap that lists A.
RdNSEC == Rdata(47, <<"b", ".", SP, "A", SP, "M", "X">>)

\* Answer sections a server may send.
AnswerSections ==
    { <<RRset(NameA, <<RdA1>>)>>,
      <<RRset(NameB, <<RdA1, RdA2>>)>>,
      <<RRset(NameA, <<RdCnameB>>)>>,
      <<RRset(NameA, <<RdCnameB>>), RRset(NameB, <<RdA1>>)>>,
      <<RRset(NameA, <<RdMX>>)>>,
      <<RRset(NameA, <<RdAAAA>>)>>,
      <<RRset(NameA, <<RdMX>>), RRset(NameA, <<RdA2>>)>> }

\* Additional sections a server may send.
AdditionalSections ==
    { <<>>,
      <<RRset(NameNS, <<RdA1>>)>>,
      <<RRset(NameNS, <<RdA1, RdA2>>)>>,
      <<RRset(NameNS, <<RdA1>>), RRset(NameB, <<RdA2>>)>>,
      <<RRset(NameNS, <<RdAAAA>>)>>,
      <<RRset(NameNS, <<RdNSEC>>)>>,
      <<RRset(NameNS, <<RdAAAA>>), RRset(NameNS, <<RdA2>>)>> }

Message(ans, add) == [answer |-> ans, additional |-> add]

\* The replies dns.query.udp may return: an answer (with or without glue
\* beside it) or no answer with any additional section.
Responses ==
    { Message(ans, <<>>) : ans \in AnswerSections }
        \cup { Message(<<RRset(NameA, <<RdMX>>)>>, <<RRset(NameNS, <<RdA1>>)>>) }
        \cup { Message(<<>>, add) : add \in AdditionalSections }

\* The arguments of a call of recursive_dns_lookup.
CallArgs(target_name, qtype, servers) ==
    [target_name |-> target_name, qtype |-> qtype, root_servers_list |-> servers]

\* The record types collect_results asks for.
QTypes == {RT_CNAME, RT_A, RT_AAAA, RT_MX}

\* Server lists a direct caller of recursive_dns_lookup passes.
ServerLists == {<<>>, ROOT_SERVERS, <<Addr1, Addr2>>}

\* The direct calls of recursive_dns_lookup: every name and type with the
\* empty list, one name and every type with the other lists.
Calls ==
    { CallArgs(FromText(n), t, <<>>) : n \in InputNames, t \in QTypes }
        \cup { CallArgs(NameA, t, l) : t \in QTypes, l \in ServerLists }

\* ---------------------------------------------------- recursive_dns_lookup

\* dns.message.make_query(target_name, qtype)
make_query(target_name, qtype) == [name |-> FromText(target_name), rdtype |-> qtype]

RECURSIVE Flatten(_, _)
\* The rdatas of an answer section in the order the two nested loops visit them.
Flatten(section, k) ==
    IF k > Len(section) THEN <<>> ELSE section[k].items \o Flatten(section, k + 1)

\* A scan that takes the first record of a non-empty answer for the answer,
\* whatever its type.
ScanFromFirst(recs, k, target_name, qtype) ==
    IF k > Len(recs)
    THEN [kind |-> "next", target_name |-> target_name]
    ELSE [kind |-> "return", target_name |-> StripLast(recs[k].text)]

\* A scan that looks at the first record of the section only.
ScanFromHead(recs, k, target_name, qtype) ==
    IF k > Len(recs)
    THEN [kind |-> "next", target_name |-> target_name]
    ELSE IF recs[k].rdtype = qtype
         THEN [kind |-> "return", target_name |-> StripLast(recs[k].text)]
         ELSE IF recs[k].rdtype = RT_CNAME
              THEN [kind |-> "alias", target_name |-> StripLast(recs[k].text)]
              ELSE [kind |-> "next", target_name |-> StripLast(recs[k].text)]

\* A scan that looks for a record of the requested type through the whole
\* section before it follows an alias.
ScanFromPrefersType(recs, k, target_name, qtype) ==
    IF \E j \in k..Len(recs) : recs[j].rdtype = qtype
    THEN [kind |-> "return", target_name |-> target_name]
    ELSE IF \E j \in k..Len(recs) : recs[j].rdtype = RT_CNAME
         THEN LET j == CHOOSE j \in k..Len(recs) :
                          /\ recs[j].rdtype = RT_CNAME
                          /\ \A h \in k..(j - 1) : recs[h].rdtype # RT_CNAME
              IN  [kind |-> "alias", target_name |-> StripLast(recs[j].text)]
         ELSE [kind |-> "next", target_name |-> target_name]

RECURSIVE ScanFrom(_, _, _, _)
\* The scan of the answer section (lines 117-130): each record overwrites
\* target_name; a record of the requested type ends the scan with "return",
\* a CNAME with "alias", and any other record is passed over.
ScanFrom(recs, k, target_name, qtype) ==
    IF k > Len(recs)
    THEN [kind |-> "next", target_name |-> target_name]
    ELSE LET response_answer == recs[k]
             tn == StripLast(response_answer.text)
         IN  IF response_answer.rdtype # qtype
             THEN IF response_answer.rdtype = RT_CNAME
                  THEN [kind |-> "alias", target_name |-> tn]
                  ELSE ScanFrom(recs, k + 1, tn, qtype)
             ELSE [kind |-> "return", target_name |-> tn]

ScanAnswer(answer, target_name, qtype) ==
    ScanFrom(Flatten(answer, 1), 1, target_name, qtype)

RECURSIVE TokenHits(_, _)
\* Lines 144-152: one copy of the last token for every token equal to 'A'.
TokenHits(resp_elements, k) ==
    IF k > Len(resp_elements) THEN <<>>
    ELSE (IF resp_elements[k] # <<"A">> THEN <<>>
          ELSE <<resp_elements[Len(resp_elements)]>>)
            \o TokenHits(resp_elements, k + 1)

RECURSIVE GlueFrom(_, _)
GlueFrom(additional, k) ==
    IF k > Len(additional) THEN <<>>
    ELSE TokenHits(Split(RRsetText(additional[k])), 1) \o GlueFrom(additional, k + 1)

\* Lines 135-153: ip_addresses built from the additional section.
ip_addresses(additional) == GlueFrom(additional, 1)

\* ------------------------------------------------------------------ state

VARIABLES
    mode,     \* "idle", "run" (the top frame executes), "ret" (a value is on
              \* its way up through the callers), "done", "raised"
    stack,    \* the frames of recursive_dns_lookup, outermost first
    retval,   \* the value returned: None (<<>>) or <<query_response>>
    exc,      \* the exception that ended the program, "none" if none
    nsent,    \* queries sent since the outermost call began
    call,     \* the arguments of the outermost call
    traceback,\* the calls a RecursionError passed through, innermost last
    ev,       \* the last thing that happened
    path,     \* the nested calls made since the outermost call began: for
              \* each its kind, the position of the server whose reply
              \* led to it, the name that was asked for, and that reply
    cpc,      \* collect_results: 0 when it is not running, else the number
              \* (1..4) of the lookup it waits for
    name,     \* collect_results' argument
    cnames, arecords, aaaarecords, mxrecords,   \* its four lists
    full_response,   \* the dict it builds and returns
    looked,   \* the lookups it has made: type and whether a Response came back
    argv,     \* main: program_args.name, <<>> before main has started
    argi,     \* main: the position of a_domain_name in argv (0 before main)
    CACHE_SYSTEM,   \* the dict from names typed to their results
    printed   \* what print_results was called with, and whether it came
              \* from the cache

rvars == <<mode, stack, retval, exc, nsent, call, traceback, ev, path>>
cvars == <<cpc, name, cnames, arecords, aaaarecords, mxrecords, full_response, looked>>
mvars == <<argv, argi, CACHE_SYSTEM, printed>>
vars == <<rvars, cvars, mvars>>

None == <<>>

\* A dict: a function from its keys; {} has none.
EmptyDict == [k \in {} |-> <<>>]

\* An assignment that leaves a key out when its list is empty.
SetItemNonEmpty(d, key, value) ==
    IF value = <<>> THEN d
    ELSE [k \in DOMAIN d \cup {key} |-> IF k = key THEN value ELSE d[k]]

\* d[key] = value
SetItem(d, key, value) ==
    [k \in DOMAIN d \cup {key} |-> IF k = key THEN value ELSE d[k]]

\* An entry of path.
Hop(via, pos, qname, resp) ==
    [via |-> via, pos |-> pos, qname |-> qname, resp |-> resp]

Event(kind, depth, pos, server, resp) ==
    [kind |-> kind, depth |-> depth, pos |-> pos, server |-> server, resp |-> resp]

\* A frame of recursive_dns_lookup: its arguments and locals, the position i
\* of the `for server` loop, and (for the record) the addresses it has
\* queried so far and the kind of call that created it.
Frame(target_name, qtype, root_servers_list, via) ==
    [ target_name |-> target_name,
      qtype |-> qtype,
      root_servers_list |-> root_servers_list,
      dns_query |-> make_query(target_name, qtype),
      i |-> 1,
      tried |-> <<>>,
      via |-> via ]

Top == stack[Len(stack)]

Init ==
    /\ mode = "idle"
    /\ stack = <<>>
    /\ retval = None
    /\ exc = "none"
    /\ nsent = 0
    /\ call = CallArgs(<<>>, 0, <<>>)
    /\ traceback = <<>>
    /\ ev = Event("none", 0, 0, <<>>, <<>>)
    /\ path = <<>>
    /\ cpc = 0
    /\ name = <<>>
    /\ cnames = <<>>
    /\ arecords = <<>>
    /\ aaaarecords = <<>>
    /\ mxrecords = <<>>
    /\ full_response = EmptyDict
    /\ looked = <<>>
    /\ argv = <<>>
    /\ argi = 0
    /\ CACHE_SYSTEM = EmptyDict
    /\ printed = <<>>

\* The top frame executes `return v`.
Return(v, kind, resp) ==
    /\ stack' = SubSeq(stack, 1, Len(stack) - 1)
    /\ retval' = v
    /\ mode' = IF Len(stack) = 1 THEN "done" ELSE "ret"
    /\ ev' = Event(kind, Len(stack), Top.i, <<>>, resp)
    /\ UNCHANGED <<exc, traceback, path>>

\* What a traceback shows of a frame: the call it stands for.
CallOf(f) == [dns_query |-> f.dns_query, root_servers_list |-> f.root_servers_list]

\* An exception nothing catches unwinds every frame; frames are the frames
\* to keep in traceback.
Raise(e, kind, frames) ==
    /\ stack' = <<>>
    /\ mode' = "raised"
    /\ exc' = e
    /\ traceback' = [k \in 1..Len(frames) |-> CallOf(frames[k])]
    /\ ev' = Event(kind, Len(stack), Top.i, <<>>, <<>>)
    /\ UNCHANGED retval
    /\ path' = <<>>

\* The top frame, having received resp from root_servers_list[i], executes
\* `return recursive_dns_lookup(tname, qtype, servers)`.
Recurse(tname, servers, via, resp) ==
    IF Len(stack) >= MaxDepth
    THEN Raise("RecursionError", via,
               Append(stack, Frame(tname, Top.qtype, servers, via)))
    ELSE /\ stack' = Append(
                [stack EXCEPT ![Len(stack)] =
                    [@ EXCEPT !.target_name = tname,
                              !.tried = Append(@, Top.root_servers_list[Top.i])]],
                Frame(tname, Top.qtype, servers, via))
         /\ ev' = Event(via, Len(stack), Top.i, Top.root_servers_list[Top.i], <<resp>>)
         /\ path' = Append(path, Hop(via, Top.i, Top.dns_query.name, resp))
         /\ UNCHANGED <<mode, retval, exc, traceback>>

\* The loop goes on to the next server.
Continue(tname, kind, resp) ==
    /\ stack' = [stack EXCEPT ![Len(stack)] =
                    [@ EXCEPT !.target_name = tname,
                              !.i = @ + 1,
                              !.tried = Append(@, Top.root_servers_list[Top.i])]]
    /\ ev' = Event(kind, Len(stack), Top.i, Top.root_servers_list[Top.i], resp)
    /\ UNCHANGED <<mode, retval, exc, traceback, path>>

\* The outermost call recursive_dns_lookup(target_name, qtype, servers).
Enter(target_name, qtype, servers) ==
    /\ stack' = <<Frame(target_name, qtype, servers, "top")>>
    /\ mode' = "run"
    /\ retval' = None
    /\ nsent' = 0
    /\ call' = CallArgs(target_name, qtype, servers)
    /\ ev' = Event("call", 0, 0, <<>>, <<>>)
    /\ path' = <<>>
    /\ UNCHANGED <<exc, traceback>>

\* A caller other than collect_results invokes
\* recursive_dns_lookup(target_name, qtype, servers).
Call(target_name, qtype, servers) ==
    /\ cpc = 0
    /\ mode \in {"idle", "done"}
    /\ Enter(target_name, qtype, servers)
    /\ UNCHANGED <<cvars, mvars>>

Running == mode = "run" /\ stack # <<>>

Querying == Running /\ Top.i <= Len(Top.root_servers_list)

\* A base case that falls back to the root servers instead of returning.
BaseCaseUsesRoots ==
    /\ Running
    /\ Top.root_servers_list = <<>>
    /\ stack' = [stack EXCEPT ![Len(stack)] = [@ EXCEPT !.root_servers_list = ROOT_SERVERS]]
    /\ ev' = Event("basecase", Len(stack), Top.i, <<>>, <<>>)
    /\ UNCHANGED <<mode, retval, exc, nsent, call, traceback, path>>
    /\ UNCHANGED <<cvars, mvars>>

\* Lines 100-101: `if not root_servers_list: return None`.
BaseCase ==
    /\ Running
    /\ Top.root_servers_list = <<>>
    /\ Return(None, "basecase", <<>>)
    /\ UNCHANGED <<nsent, call>>
    /\ UNCHANGED <<cvars, mvars>>

\* A timeout handler that asks the same server again.
TimeoutRetries ==
    /\ Querying
    /\ nsent < 2 * MaxDepth * NumRoots
    /\ nsent' = nsent + 1
    /\ stack' = [stack EXCEPT ![Len(stack)] =
                    [@ EXCEPT !.tried = Append(@, Top.root_servers_list[Top.i])]]
    /\ ev' = Event("timeout", Len(stack), Top.i, Top.root_servers_list[Top.i], <<>>)
    /\ UNCHANGED <<mode, retval, exc, call, traceback, path>>
    /\ UNCHANGED <<cvars, mvars>>

\* Lines 110-113: the query to root_servers_list[i] times out.
Timeout ==
    /\ Querying
    /\ nsent' = nsent + 1
    /\ UNCHANGED <<call, cvars, mvars>>
    /\ Continue(Top.target_name, "timeout", <<>>)

\* Line 111: dns.query.udp raises something other than Timeout (a reply that
\* cannot be decoded, a socket error); no handler catches it.
QueryFails ==
    /\ Querying
    /\ nsent' = nsent + 1
    /\ UNCHANGED <<call, cvars, mvars>>
    /\ Raise("QueryError", "error", <<>>)

\* An alias chase that stays with the servers the step was using.
AliasCallSameServers(target_name, query_response) ==
    Recurse(target_name, Top.root_servers_list, "alias", query_response)

\* Line 127: `return recursive_dns_lookup(target_name, qtype, ROOT_SERVERS)`,
\* target_name being the text of the CNAME record without its last character.
AliasCall(target_name, query_response) ==
    Recurse(target_name, ROOT_SERVERS, "alias", query_response)

\* Line 155: `return recursive_dns_lookup(target_name, qtype, ip_addresses)`,
\* target_name being whatever the local variable holds by now.
ReferralCall(query_response) ==
    Recurse(Top.target_name, ip_addresses(query_response.additional),
            "referral", query_response)

\* Lines 111, 115-155: the query to root_servers_list[i] is answered.
Reply(query_response) ==
    /\ Querying
    /\ nsent' = nsent + 1
    /\ UNCHANGED <<call, cvars, mvars>>
    /\ IF query_response.answer # <<>>
       THEN LET s == ScanAnswer(query_response.answer, Top.target_name, Top.qtype)
            IN  CASE s.kind = "return" ->
                        Return(<<query_response>>, "answer", <<query_response>>)
                  [] s.kind = "alias" ->
                        AliasCall(s.target_name, query_response)
                  [] OTHER ->
                        Continue(s.target_name, "skip", <<query_response>>)
       ELSE IF query_response.additional # <<>>
            THEN ReferralCall(query_response)
            ELSE Continue(Top.target_name, "skip", <<query_response>>)

\* A loop that stops one server short.
ExhaustedEarly ==
    /\ Running
    /\ Top.root_servers_list # <<>>
    /\ Top.i >= Len(Top.root_servers_list)
    /\ Return(None, "exhausted", <<>>)
    /\ UNCHANGED <<nsent, call>>
    /\ UNCHANGED <<cvars, mvars>>

\* The loop of line 107 ends; the function returns None by falling off its end.
Exhausted ==
    /\ Running
    /\ Top.root_servers_list # <<>>
    /\ Top.i > Len(Top.root_servers_list)
    /\ Return(None, "exhausted", <<>>)
    /\ UNCHANGED <<nsent, call>>
    /\ UNCHANGED <<cvars, mvars>>

\* A caller that goes on with its own list when the nested call found nothing.
ReturnNestedResumes ==
    /\ mode = "ret"
    /\ stack # <<>>
    /\ IF retval = None
       THEN /\ stack' = [stack EXCEPT ![Len(stack)] = [@ EXCEPT !.i = @ + 1]]
            /\ mode' = "run"
            /\ ev' = Event("return", Len(stack), Top.i, <<>>, <<>>)
            /\ UNCHANGED <<retval, exc, traceback, path>>
       ELSE Return(retval, "return", <<>>)
    /\ UNCHANGED <<nsent, call>>
    /\ UNCHANGED <<cvars, mvars>>

\* Lines 127 and 155: the caller returns what the nested call returned.
ReturnNested ==
    /\ mode = "ret"
    /\ stack # <<>>
    /\ Return(retval, "return", <<>>)
    /\ UNCHANGED <<nsent, call>>
    /\ UNCHANGED <<cvars, mvars>>

Next ==
    \/ \E c \in Calls : Call(c.target_name, c.qtype, c.root_servers_list)
    \/ BaseCase
    \/ Timeout
    \/ QueryFails
    \/ \E r \in Responses : Reply(r)
    \/ Exhausted
    \/ ReturnNested

Spec == Init /\ [][Next]_vars

\* ------------------------------------------------------- collect_results

\* Replies the servers send in the runs of collect_results.
CollectResponses ==
    { Message(<<RRset(NameA, <<RdCnameB>>)>>, <<>>),
      Message(<<RRset(NameA, <<RdCnameB>>), RRset(NameB, <<RdA1>>)>>, <<>>),
      Message(<<RRset(NameA, <<RdMX>>), RRset(NameA, <<RdA2>>)>>, <<>>),
      Message(<<RRset(NameA, <<RdAAAA>>)>>, <<>>),
      Message(<<RRset(NameA, <<RdA2>>)>>, <<>>),
      Message(<<RRset(NameB, <<RdA1>>)>>, <<>>),
      Message(<<>>, <<RRset(NameNS, <<RdA1>>)>>),
      Message(<<>>, <<RRset(NameNS, <<RdAAAA>>)>>) }

\* Lines 158-171: lookup(target_name, qtype).
lookup(target_name, qtype) == Enter(target_name, qtype, ROOT_SERVERS)

RECURSIVE CnameEntries(_, _, _)
\* Lines 49-51: one entry for every record of the answer section.
CnameEntries(recs, k, alias) ==
    IF k > Len(recs) THEN <<>>
    ELSE <<[name |-> recs[k], alias |-> alias]>> \o CnameEntries(recs, k + 1, alias)

\* Entries for the records that do not have type t.
AddressEntriesOfOthers(answers, k, t, owner) ==
    LET others == SelectSeq(answers.items, LAMBDA rd : rd.rdtype # t)
    IN  [j \in 1..Len(others) |-> [name |-> owner, address |-> others[j].text]]

\* Entries filed under the name that was asked for.
AddressEntriesUnderQueried(answers, k, t, owner) ==
    LET typed == SelectSeq(answers.items, LAMBDA rd : rd.rdtype = t)
    IN  [j \in 1..Len(typed) |-> [name |-> FromText(name), address |-> typed[j].text]]

RECURSIVE AddressEntries(_, _, _, _)
\* Lines 60-62 and 71-73: the records of one record set that have type t.
AddressEntries(answers, k, t, owner) ==
    IF k > Len(answers.items) THEN <<>>
    ELSE (IF answers.items[k].rdtype = t
          THEN <<[name |-> owner, address |-> answers.items[k].text]>>
          ELSE <<>>)
            \o AddressEntries(answers, k + 1, t, owner)

RECURSIVE MxEntries(_, _, _)
\* Lines 81-85: the MX records of one record set; the text of an MX record
\* is its preference and its exchange.
MxEntries(answers, k, owner) ==
    IF k > Len(answers.items) THEN <<>>
    ELSE (IF answers.items[k].rdtype = RT_MX
          THEN <<[name |-> owner,
                  preference |-> Split(answers.items[k].text)[1],
                  exchange |-> Split(answers.items[k].text)[2]]>>
          ELSE <<>>)
            \o MxEntries(answers, k + 1, owner)

RECURSIVE OverSets(_, _, _)
\* The outer loop `for answers in response.answer` of the A, AAAA and MX
\* parts, answers.name being the owner of the entries.
OverSets(answer, k, t) ==
    IF k > Len(answer) THEN <<>>
    ELSE (IF t = RT_MX
          THEN MxEntries(answer[k], 1, answer[k].name)
          ELSE AddressEntries(answer[k], 1, t, answer[k].name))
            \o OverSets(answer, k + 1, t)

\* The list collect_results builds from what lookup returned for type t.
Reshape(response, t, alias) ==
    IF response = None THEN <<>>
    ELSE IF t = RT_CNAME
         THEN CnameEntries(Flatten(response[1].answer, 1), 1, alias)
         ELSE OverSets(response[1].answer, 1, t)

\* The order of the four lookups.
TypeOrder == <<RT_CNAME, RT_A, RT_AAAA, RT_MX>>

\* Lines 41-46: collect_results(n) up to its first lookup; from_text may
\* raise, and nothing catches that.
collect_begin(n) ==
    /\ name' = n
    /\ full_response' = EmptyDict
    /\ cnames' = <<>>
    /\ arecords' = <<>>
    /\ aaaarecords' = <<>>
    /\ mxrecords' = <<>>
    /\ looked' = <<>>
    /\ IF Parses(n)
       THEN /\ cpc' = 1
            /\ lookup(FromText(n), TypeOrder[1])
       ELSE /\ cpc' = 0
            /\ mode' = "raised"
            /\ exc' = "EmptyLabel"
            /\ ev' = Event("error", 0, 0, <<>>, <<>>)
            /\ UNCHANGED <<stack, retval, nsent, call, traceback, path>>

\* collect_results(n) called on its own.
collect_results(n) ==
    /\ cpc = 0
    /\ argi = 0
    /\ mode = "idle"
    /\ collect_begin(n)
    /\ UNCHANGED mvars

\* Lines 47-92: a lookup has returned; its result is reshaped into the list
\* of its type, and either the next lookup starts or the dict is built and
\* returned.
collect_next ==
    /\ cpc \in 1..Len(TypeOrder)
    /\ mode = "done"
    /\ LET t == TypeOrder[cpc]
           entries == Reshape(retval, t, name)
           cn == IF t = RT_CNAME THEN entries ELSE cnames
           ar == IF t = RT_A THEN entries ELSE arecords
           aa == IF t = RT_AAAA THEN entries ELSE aaaarecords
           mx == IF t = RT_MX THEN entries ELSE mxrecords
       IN  /\ cnames' = cn
           /\ arecords' = ar
           /\ aaaarecords' = aa
           /\ mxrecords' = mx
           /\ looked' = Append(looked, [qtype |-> t, found |-> retval # None])
           /\ IF cpc < Len(TypeOrder)
              THEN /\ cpc' = cpc + 1
                   /\ lookup(FromText(name), TypeOrder[cpc + 1])
                   /\ UNCHANGED full_response
              ELSE /\ full_response' =
                        SetItem(SetItem(SetItem(SetItem(EmptyDict,
                            "CNAME", cn), "A", ar), "AAAA", aa), "MX", mx)
                   /\ cpc' = 0
                   /\ mode' = "idle"
                   /\ ev' = Event("collected", 0, 0, <<>>, <<>>)
                   /\ UNCHANGED <<stack, retval, exc, nsent, call, traceback, path>>
    /\ UNCHANGED <<name, mvars>>

NextCollect ==
    \/ \E n \in InputNames : collect_results(n)
    \/ collect_next
    \/ BaseCase
    \/ Timeout
    \/ QueryFails
    \/ \E r \in CollectResponses : Reply(r)
    \/ Exhausted
    \/ ReturnNested

SpecCollect == Init /\ [][NextCollect]_vars

\* ------------------------------------------------------------------ main

\* A name that from_text refuses.
BadName == <<".", ".">>

\* What the user may type for a name.
ArgNames == InputNames \cup {BadName}

\* The lists of names the command line may carry (nargs="+").
ArgLists == UNION {[1..n -> ArgNames] : n \in 1..MaxArgs}

\* Replies the servers send in the runs of main.
MainResponses ==
    { Message(<<RRset(NameA, <<RdAAAA>>)>>, <<>>),
      Message(<<>>, <<RRset(NameNS, <<RdAAAA>>)>>) }

\* collect_results has returned to main.
Collected == cpc = 0 /\ ev.kind = "collected"

\* main is at the top of its loop with a name to handle.
AtLoopTop ==
    /\ argi \in 1..Len(argv)
    /\ cpc = 0
    /\ mode = "idle"
    /\ ~Collected

\* Lines 190-197: main parses the command line and enters its loop.
main(args) ==
    /\ argv = <<>>
    /\ cpc = 0
    /\ mode = "idle"
    /\ argv' = args
    /\ argi' = 1
    /\ UNCHANGED <<CACHE_SYSTEM, printed, rvars, cvars>>

\* Lines 200-201: the name is a key of CACHE_SYSTEM; its entry is printed.
main_hit ==
    /\ AtLoopTop
    /\ argv[argi] \in DOMAIN CACHE_SYSTEM
    /\ printed' = Append(printed, [results |-> CACHE_SYSTEM[argv[argi]], cached |-> TRUE])
    /\ argi' = argi + 1
    /\ UNCHANGED <<argv, CACHE_SYSTEM, rvars, cvars>>

\* Lines 202-206: the name is not a key; collect_results is called.
main_miss ==
    /\ AtLoopTop
    /\ argv[argi] \notin DOMAIN CACHE_SYSTEM
    /\ collect_begin(argv[argi])
    /\ UNCHANGED mvars

\* A store that keeps a result only when it has found some record.
main_store_found ==
    /\ argi \in 1..Len(argv)
    /\ Collected
    /\ CACHE_SYSTEM' =
          IF \A k \in DOMAIN full_response : full_response[k] = <<>>
          THEN CACHE_SYSTEM
          ELSE SetItem(CACHE_SYSTEM, argv[argi], full_response)
    /\ printed' = Append(printed, [results |-> full_response, cached |-> FALSE])
    /\ argi' = argi + 1
    /\ ev' = Event("printed", 0, 0, <<>>, <<>>)
    /\ UNCHANGED <<argv, mode, stack, retval, exc, nsent, call, traceback, path, cvars>>

\* Lines 206-207: collect_results has returned; its result is stored under
\* the name as typed, and printed.
main_store ==
    /\ argi \in 1..Len(argv)
    /\ Collected
    /\ CACHE_SYSTEM' = SetItem(CACHE_SYSTEM, argv[argi], full_response)
    /\ printed' = Append(printed, [results |-> CACHE_SYSTEM'[argv[argi]], cached |-> FALSE])
    /\ argi' = argi + 1
    /\ ev' = Event("printed", 0, 0, <<>>, <<>>)
    /\ UNCHANGED <<argv, mode, stack, retval, exc, nsent, call, traceback, path, cvars>>

NextMain ==
    \/ \E args \in ArgLists : main(args)
    \/ main_hit
    \/ main_miss
    \/ main_store
    \/ collect_next
    \/ BaseCase
    \/ Timeout
    \/ QueryFails
    \/ \E r \in MainResponses : Reply(r)
    \/ Exhausted
    \/ ReturnNested

SpecMain == Init /\ [][NextMain]_vars

\* ------------------------------------------------------------ the claims

\* The records of an answer section, in section order.
Records(answer) == Flatten(answer, 1)

HasType(answer, t) == \E k \in 1..Len(Records(answer)) : Records(answer)[k].rdtype = t

\* A frame leaves the stack by returning None in this step.
ReturnsNone ==
    /\ stack # <<>>
    /\ Len(stack') = Len(stack) - 1
    /\ mode' \in {"ret", "done"}
    /\ retval' = None

\* C1: whenever recursive_dns_lookup returns a Response instead of None, at
\* any level of the recursion, the answer section of that Response holds a
\* record of the requested type.
C1_ResponseHasRequestedType ==
    (mode \in {"ret", "done"} /\ retval # None)
        => /\ Len(retval) = 1
           /\ HasType(retval[1].answer, call.qtype)

\* C1 witness: a nested call has just returned a Response to its caller.
C1_Witness ==
    /\ mode = "ret"
    /\ retval # None
    /\ ev.kind = "answer"
    /\ ev.depth = 2

\* C2 as stated: a step returns None only after it has queried every
\* address of its list, in list order.  (The returns that hand on the None
\* of a call made with an empty list are left aside, so that what refutes
\* the statement is a nested call that had servers to ask.)
C2_Original ==
    [][(ReturnsNone /\ ev.kind # "basecase")
          => Top.tried = Top.root_servers_list]_vars

\* C2 amended: a step that returns None on its own account (not by handing
\* on the None of a nested call) has queried every address of its list, in
\* list order; and while a step runs, the addresses it has queried are the
\* first i - 1 of its list.
C2_OwnNoneOnlyAfterWholeList ==
    [][ /\ (ReturnsNone /\ mode = "run") => Top.tried = Top.root_servers_list
        /\ Running =>
              /\ Top.i <= Len(Top.root_servers_list) + 1
              /\ Top.tried = SubSeq(Top.root_servers_list, 1, Top.i - 1) ]_vars

\* C2 witness: the outermost step went through the whole root list and
\* returned None.
C2_Witness ==
    /\ mode = "done"
    /\ retval = None
    /\ ev.kind = "exhausted"
    /\ ev.pos = NumRoots + 1
    /\ call.root_servers_list = ROOT_SERVERS
    /\ nsent = NumRoots

\* C3: after the query to the address at position p of a step's list timed
\* out, the step is still running at the same depth with no exception
\* pending, and it stands at position p + 1 of its list: the next query of
\* the step goes to the next list entry and entry p is not asked again.
\* (An address is an entry of the list: an address the list holds twice is
\* queried once per entry.)
C3_TimeoutAdvances ==
    ev.kind = "timeout"
        => /\ mode = "run"
           /\ exc = "none"
           /\ Len(stack) = ev.depth
           /\ Top.i = ev.pos + 1
           /\ Top.tried = SubSeq(Top.root_servers_list, 1, ev.pos)
           /\ Top.tried[ev.pos] = ev.server

\* C3 witness: the second root server has just timed out after the first
\* one did not lead anywhere.
C3_Witness ==
    /\ ev.kind = "timeout"
    /\ ev.pos = 2
    /\ Top.root_servers_list = ROOT_SERVERS
    /\ Top.i = 3

\* C4: recursive_dns_lookup(name, T, []) returns None and sends no query.
C4_EmptyServersNotFound ==
    /\ (call.root_servers_list = <<>> /\ mode # "idle")
          => /\ nsent = 0
             /\ exc = "none"
             /\ mode \in {"run", "done"}
             /\ Len(stack) <= 1
             /\ (mode = "done" => retval = None /\ ev.kind = "basecase")
    /\ \A k \in 1..Len(stack) :
          stack[k].root_servers_list = <<>> => stack[k].tried = <<>> /\ k = Len(stack)

\* C4 witness: a call with an empty server list has returned.
C4_Witness ==
    /\ mode = "done"
    /\ call.root_servers_list = <<>>
    /\ call.qtype = RT_MX

\* The CNAME record the scan of an answer section for type t comes upon:
\* the first record of type t or CNAME, if that is a CNAME and t is not.
EncounteredCname(answer, t) ==
    LET recs == Records(answer)
        hits == {k \in 1..Len(recs) : recs[k].rdtype \in {t, RT_CNAME}}
        first == CHOOSE k \in hits : \A j \in hits : k <= j
    IN  IF t # RT_CNAME /\ hits # {} /\ recs[first].rdtype = RT_CNAME
        THEN <<recs[first]>>
        ELSE <<>>

\* C5: a step that comes upon a CNAME record while resolving another type
\* calls recursive_dns_lookup with the record's target as name, the same
\* type and ROOT_SERVERS, whatever list the step itself was given.
C5_AliasRestartsFromRoot ==
    /\ (ev.kind = "alias" /\ mode = "run")
          => LET caller == stack[ev.depth]
                 callee == stack[ev.depth + 1]
                 c == EncounteredCname(ev.resp[1].answer, caller.qtype)
             IN  /\ Len(stack) = ev.depth + 1
                 /\ c # <<>>
                 /\ callee.dns_query.name = c[1].text
                 /\ callee.dns_query.rdtype = caller.dns_query.rdtype
                 /\ callee.qtype = caller.qtype
                 /\ callee.root_servers_list = ROOT_SERVERS
                 /\ callee.i = 1
    /\ (ev.kind \in {"answer", "skip"} /\ ev.resp # <<>>)
          => EncounteredCname(ev.resp[1].answer, call.qtype) = <<>>

\* C5 witness: a step working on a list of glue addresses has come upon a
\* CNAME for another name and called itself with the root servers.
C5_Witness ==
    /\ ev.kind = "alias"
    /\ mode = "run"
    /\ Len(stack) = 2
    /\ stack[1].root_servers_list = <<Addr1, Addr2>>
    /\ stack[2].root_servers_list = ROOT_SERVERS
    /\ stack[2].dns_query.name # stack[1].dns_query.name
    /\ stack[2].qtype = RT_A

\* C6 as stated: a step that follows a referral calls recursive_dns_lookup
\* once, with the name and the type it was itself called with (those of the
\* query it built), whichever server of its list sent the referral.
C6_ReferralKeepsName ==
    (ev.kind = "referral" /\ mode = "run")
        => LET caller == stack[ev.depth]
               callee == stack[ev.depth + 1]
           IN  /\ Len(stack) = ev.depth + 1
               /\ callee.dns_query.name = caller.dns_query.name
               /\ callee.dns_query.rdtype = caller.dns_query.rdtype

RECURSIVE ATextsFrom(_, _)
ATextsFrom(recs, k) ==
    IF k > Len(recs) THEN <<>>
    ELSE (IF recs[k].rdtype = RT_A THEN <<recs[k].text>> ELSE <<>>)
            \o ATextsFrom(recs, k + 1)

\* The addresses of the A records of a section, in section order.
AddressesOfA(section) == ATextsFrom(Records(section), 1)

\* C7 as stated: the server list of the nested call of a referral is the
\* sequence of the addresses of the A records of the additional section.
C7_GlueIsTheARecords ==
    (ev.kind = "referral" /\ mode = "run")
        => stack[ev.depth + 1].root_servers_list
              = AddressesOfA(ev.resp[1].additional)

\* A response that offers no next step for type t.
Unusable(r, t) ==
    IF r.answer # <<>>
    THEN ~HasType(r.answer, t) /\ ~HasType(r.answer, RT_CNAME)
    ELSE r.additional = <<>> \/ ~HasType(r.additional, RT_A)

\* C8 as stated: after a response that offers no next step, the step is
\* still running and stands at the next address of its list.
C8_UnusableFallsThrough ==
    (ev.kind \in {"answer", "alias", "referral", "skip"} /\ ev.resp # <<>>
        /\ Unusable(ev.resp[1], call.qtype))
        => /\ mode = "run"
           /\ Len(stack) = ev.depth
           /\ Top.i = ev.pos + 1

\* C9 as stated, for the hierarchies with a cycle: a chain of alias chases
\* and referrals that comes back to a call it is already inside of still ends
\* with a return, not with the interpreter giving up on the recursion.
C9_CyclesReturn ==
    ~ /\ mode = "raised"
      /\ exc = "RecursionError"
      /\ \E k \in 1..(Len(traceback) - 1) :
            traceback[k] = traceback[Len(traceback)]

\* The key collect_results files the list of type t under.
TagOf(t) ==
    CASE t = RT_CNAME -> "CNAME"
      [] t = RT_A -> "A"
      [] t = RT_AAAA -> "AAAA"
      [] t = RT_MX -> "MX"

\* C10: whenever collect_results returns, its result has exactly the keys
\* CNAME, A, AAAA and MX, each mapped to a sequence; the four lookups were
\* all made, in that order, whatever the earlier ones found; and the list
\* of a type whose lookup returned None is empty.
C10_CollectHasFourTags ==
    /\ cpc # 0 => Len(looked) = cpc - 1
    /\ Collected =>
          /\ DOMAIN full_response = {"CNAME", "A", "AAAA", "MX"}
          /\ \A k \in DOMAIN full_response :
                DOMAIN full_response[k] = 1..Len(full_response[k])
          /\ Len(looked) = Len(TypeOrder)
          /\ \A k \in 1..Len(TypeOrder) :
                /\ looked[k].qtype = TypeOrder[k]
                /\ ~looked[k].found => full_response[TagOf(TypeOrder[k])] = <<>>

\* C10 witness: collect_results returned after the CNAME lookup found
\* nothing and the A lookup found an answer.
C10_Witness ==
    /\ Collected
    /\ ~looked[1].found
    /\ looked[2].found
    /\ full_response["CNAME"] = <<>>
    /\ full_response["A"] # <<>>
    /\ full_response["MX"] = <<>>

\* The list collect_results keeps for type t, as a step leaves it.
NewListOf(t) ==
    CASE t = RT_CNAME -> cnames'
      [] t = RT_A -> arecords'
      [] t = RT_AAAA -> aaaarecords'
      [] t = RT_MX -> mxrecords'

\* The records of type t of what a lookup returned, in section order.
Typed(response, t) ==
    IF response = None THEN <<>>
    ELSE SelectSeq(Records(response[1].answer), LAMBDA rd : rd.rdtype = t)

\* Entry e of the list of type t shows record rd.
BuiltFrom(e, rd, t) ==
    CASE t = RT_CNAME -> e.name = rd
      [] t = RT_MX -> /\ e.preference = Split(rd.text)[1]
                      /\ e.exchange = Split(rd.text)[2]
      [] OTHER -> e.address = rd.text

\* C11: when a lookup for type T has returned and collect_results builds
\* the list of T from it, the list has one entry for every record of type T
\* of the answer section, in order, and no entry for a record of another
\* type.
C11_EntriesHaveTheirType ==
    [][(cpc \in 1..Len(TypeOrder) /\ mode = "done" /\ cpc' # cpc) =>
          LET t == TypeOrder[cpc]
              typed == Typed(retval, t)
          IN  /\ Len(NewListOf(t)) = Len(typed)
              /\ \A k \in 1..Len(typed) : BuiltFrom(NewListOf(t)[k], typed[k], t)]_vars

\* C14: a reply that cannot be decoded is treated like a timeout: after it
\* the step runs on with the next address of its list and no exception is
\* on its way to the caller.
C14_UndecodableSkipsServer ==
    ev.kind = "error" =>
        /\ mode = "run"
        /\ exc = "none"
        /\ Len(stack) = ev.depth
        /\ Top.i = ev.pos + 1

\* C15: a value on its way up from a nested call (alias chase or referral)
\* goes through every enclosing step unchanged, None included, one frame
\* per step, and no query is sent on the way; every step below the
\* executing one has made its nested call from the last address it queried.
C15_NestedResultHandedOn ==
    [][/\ mode = "ret" =>
            /\ retval' = retval
            /\ nsent' = nsent
            /\ stack' = SubSeq(stack, 1, Len(stack) - 1)
            /\ mode' = IF Len(stack) = 1 THEN "done" ELSE "ret"
       /\ \A k \in 1..(Len(stack) - 1) :
            /\ stack[k + 1].via \in {"alias", "referral"}
            /\ stack[k].tried = SubSeq(stack[k].root_servers_list, 1, stack[k].i)]_vars

\* C15 witness: the outermost step, called with the root servers, has
\* returned the None of a referral's nested call after two queries in all,
\* the rest of its own list not queried.
C15_Witness ==
    /\ mode = "done"
    /\ retval = None
    /\ ev.kind = "return"
    /\ ev.depth = 1
    /\ call.root_servers_list = ROOT_SERVERS
    /\ nsent = 2
    /\ nsent < Len(call.root_servers_list)

\* The scan of an answer section for type t reaches a record of type t: no
\* CNAME record of another type than t stands before it.
Reaches(answer, t) ==
    \E k \in 1..Len(Records(answer)) :
        /\ Records(answer)[k].rdtype = t
        /\ \A j \in 1..(k - 1) : Records(answer)[j].rdtype # RT_CNAME

\* C16: a reply whose scan reaches a record of the requested type ends the
\* step at once with that reply, as it was received, for the result (the
\* step does not pass it over, follow an alias or a referral instead); the
\* result is one reply of a server; and from then on until the lookup has
\* returned no query is sent and the result does not change.
C16_FirstMatchReturnsResponse ==
    [][/\ (ev.resp # <<>> /\ Reaches(ev.resp[1].answer, call.qtype)) =>
            /\ ev.kind = "answer"
            /\ mode \in {"ret", "done"}
            /\ retval = ev.resp
       /\ (mode \in {"ret", "done"} /\ retval # None) =>
            /\ Len(retval) = 1
            /\ retval[1] \in Responses
       /\ (mode \in {"ret", "done"} /\ retval # None /\ mode' # "run") =>
            /\ nsent' = nsent
            /\ retval' = retval]_vars

\* C16 witness: an A lookup with two servers to ask has returned the reply
\* of the first, whose answer section has an MX record before the A record.
C16_Witness ==
    /\ mode = "done"
    /\ retval # None
    /\ ev.kind = "answer"
    /\ call.qtype = RT_A
    /\ nsent = 1
    /\ Len(call.root_servers_list) = 2
    /\ Records(retval[1].answer)[1].rdtype = RT_MX

\* An answer section with a CNAME record that no record of type t precedes
\* and that a record of type t follows.
CnameBeforeType(answer, t) ==
    \E k \in 1..Len(Records(answer)) :
        /\ Records(answer)[k].rdtype = RT_CNAME
        /\ \A j \in 1..(k - 1) : Records(answer)[j].rdtype # t
        /\ \E j \in (k + 1)..Len(Records(answer)) : Records(answer)[j].rdtype = t

\* C19: when the type looked up is not CNAME, a reply whose answer section
\* has a CNAME record before its records of that type is never the result;
\* the step that receives it makes the alias call with the root servers and
\* the CNAME's target.
C19_CnameHidesLaterAnswer ==
    call.qtype # RT_CNAME =>
        /\ retval # None => ~CnameBeforeType(retval[1].answer, call.qtype)
        /\ (ev.resp # <<>> /\ CnameBeforeType(ev.resp[1].answer, call.qtype)) =>
              /\ ev.kind = "alias"
              /\ mode = "run"
              /\ Len(stack) = ev.depth + 1
              /\ Top.via = "alias"
              /\ Top.root_servers_list = ROOT_SERVERS
              /\ Top.i = 1
              /\ \E k \in 1..Len(Records(ev.resp[1].answer)) :
                    /\ Records(ev.resp[1].answer)[k].rdtype = RT_CNAME
                    /\ Top.dns_query.name = FromText(Records(ev.resp[1].answer)[k].text)

\* C19 witness: an A lookup has received the reply "a CNAME b, b A" and
\* has made the alias call.
C19_Witness ==
    /\ call.qtype = RT_A
    /\ ev.kind = "alias"
    /\ ev.resp # <<>>
    /\ CnameBeforeType(ev.resp[1].answer, RT_A)
    /\ HasType(ev.resp[1].answer, RT_A)
    /\ Top.via = "alias"

\* C12: when a name has been handled by main and the identical string comes
\* up again, the second result is taken from the cache and equals the
\* first; a step that prints from the cache makes no lookup and sends no
\* query.  The name's lists may all be empty.
C12_SecondCallFromCache ==
    [][/\ Len(printed') <= Len(argv')
       /\ \A i, j \in 1..Len(printed') :
            (i < j /\ argv'[i] = argv'[j]) =>
                /\ printed'[j].cached
                /\ printed'[j].results = printed'[i].results
       /\ (Len(printed') > Len(printed) /\ printed'[Len(printed')].cached) =>
            /\ UNCHANGED <<rvars, cvars>>
            /\ mode = "idle"
            /\ stack = <<>>]_vars

\* C12 witness: the same name was given twice, its four lookups all
\* returned None, and the second result came from the cache.
C12_Witness ==
    /\ Len(argv) = 2
    /\ argv[1] = argv[2]
    /\ Len(printed) = 2
    /\ printed[2].cached
    /\ \A k \in DOMAIN printed[1].results : printed[1].results[k] = <<>>
    /\ \A k \in 1..Len(looked) : ~looked[k].found

\* C13: when from_text has refused a name of the command line, every other
\* name of the command line that parses has had its result printed.
C13_BadNameIsConfined ==
    exc = "EmptyLabel" =>
        \A k \in 1..Len(argv) : Parses(argv[k]) => k <= Len(printed)

\* An answer section that is one record of type t owned by owner.
OneRecord(response, owner, t) ==
    /\ response # None
    /\ Len(response[1].answer) = 1
    /\ response[1].answer[1].name = owner
    /\ Len(response[1].answer[1].items) = 1
    /\ response[1].answer[1].items[1].rdtype = t

\* collect_results is about to file what its lookup number k has returned.
Filing(k) == cpc = k /\ mode = "done"

\* Once the A lookup is filed, the CNAME and A lists stay as they are and
\* are what collect_results returns under CNAME and A.
ListsKept ==
    cpc \in 3..4 =>
        /\ cnames' = cnames
        /\ arecords' = arecords
        /\ cpc' = 0 => /\ full_response'["CNAME"] = cnames
                       /\ full_response'["A"] = arecords

\* The A lookup of collect_results went the way of the two-level hierarchy:
\* the first root server's reply was a referral whose additional section is
\* one A record, that was the only nested call, and the result is one A
\* record owned by the name asked for.
TwoLevelRun ==
    /\ Filing(2)
    /\ Len(path) = 1
    /\ path[1].via = "referral"
    /\ path[1].pos = 1
    /\ path[1].resp.answer = <<>>
    /\ Len(path[1].resp.additional) = 1
    /\ Len(path[1].resp.additional[1].items) = 1
    /\ path[1].resp.additional[1].items[1].rdtype = RT_A
    /\ OneRecord(retval, FromText(name), RT_A)

\* C17: in the two-level hierarchy the A lookup has sent exactly two
\* queries, and the A list of collect_results becomes (and is returned as)
\* one entry: the queried name and the address of the A record.
C17_TwoLevelScenario ==
    [][/\ TwoLevelRun =>
            /\ nsent = 2
            /\ arecords' = <<[name |-> FromText(name),
                              address |-> retval[1].answer[1].items[1].text]>>
       /\ ListsKept]_vars

\* C17 witness: the A lookup of collect_results("a") has returned from the
\* two-level run with the A record of a.
C17_Witness ==
    /\ TwoLevelRun
    /\ name = <<"a">>
    /\ path[1].resp.additional[1].items[1].text = Addr1
    /\ retval[1].answer[1].items[1].text = Addr2

\* The A lookup of collect_results went the way of the alias scenario: the
\* CNAME lookup had found the one CNAME record of the name; every nested call
\* of the A lookup was made for the name on a reply that is that CNAME
\* record alone; and the result is one A record owned by the CNAME's target,
\* another name.
AliasRun ==
    /\ Filing(2)
    /\ Len(cnames) = 1
    /\ cnames[1].name.rdtype = RT_CNAME
    /\ FromText(cnames[1].name.text) # FromText(name)
    /\ path # <<>>
    /\ \A k \in 1..Len(path) :
          /\ path[k].qname = FromText(name)
          /\ path[k].resp.answer = <<RRset(FromText(name), <<cnames[1].name>>)>>
    /\ OneRecord(retval, FromText(cnames[1].name.text), RT_A)

\* C18: a CNAME lookup that returns the one CNAME record of the name gives
\* one CNAME entry, alias the name as typed and name the record; in the
\* alias scenario the A lookup has made exactly one nested call, an alias
\* restart, and the A list becomes one entry owned by the CNAME's target;
\* both lists are returned as they are.
C18_AliasScenario ==
    [][/\ (Filing(1) /\ OneRecord(retval, FromText(name), RT_CNAME)) =>
            cnames' = <<[name |-> retval[1].answer[1].items[1], alias |-> name]>>
       /\ AliasRun =>
            /\ Len(path) = 1
            /\ path[1].via = "alias"
            /\ arecords' = <<[name |-> FromText(cnames[1].name.text),
                              address |-> retval[1].answer[1].items[1].text]>>
       /\ ListsKept]_vars

\* C18 witness: collect_results("a") had the entry "a is an alias for b."
\* and its A lookup has returned from the alias scenario with the A record
\* of b.
C18_Witness ==
    /\ AliasRun
    /\ name = <<"a">>
    /\ cnames = <<[name |-> RdCnameB, alias |-> <<"a">>]>>
    /\ retval[1].answer[1].name = NameB
    /\ path[1].via = "alias"

====
